---- MODULE Spec2Model ----
(***************************************************************************)
(* Model of the resilient batch data pipeline of ytdt-api:                 *)
(*   - ResumableDictWriter / save_to_csv   (utils/csv.py)                  *)
(*   - DataPipeline                        (models/pipeline.py)            *)
(*   - scrape orchestrator and limiter     (lib/scraper.py)                *)
(*                                                                         *)
(* A file is a sequence of rows; a row is a header row or a data row and   *)
(* carries the column set it was written with.  A record is a mapping; it  *)
(* is modelled by its identifier and its key set.                          *)
(***************************************************************************)
EXTENDS Integers, Sequences, FiniteSets, TLC

VARIABLES
    files,          \* path -> [exists, rows]: the csv files on disk
    ckpt,           \* path -> checkpoint file "<path>.checkpoint"
    w,              \* the live ResumableDictWriter (save_to_csv call frame)
    wres,           \* value returned by the last save_to_csv call
    batch,          \* rows handed to save_to_csv by a direct caller
    data_queue,     \* DataPipeline.data_queue
    errors_queue,   \* DataPipeline.errors_queue
    stats,          \* DataPipeline.stats counters
    cfg,            \* DataPipeline constructor arguments
    pc,             \* position of the code that drives the pipeline/writer
    input,          \* records the scope body enqueues, in order
    idx,            \* number of records of input already handed to enqueue
    hist,           \* history: what was accepted, flushed, killed
    tasks,          \* orchestrator: per item state of _scrape_to_pipeline
    results,        \* orchestrator: the aggregate {videos, errors}
    scraper,        \* YouTubeVideoScraper.concurrency and .max_per_second
    limiter,        \* limiter: clock, next admissible start, start times
    jobs,           \* api: cached_jobs, the run_tool calls, the clock
    fetch           \* fetch orchestrator: the chunk loop of run_tasks

diskVars == <<files, ckpt>>
writerVars == <<w, wres>>
pipeVars == <<data_queue, errors_queue, stats, cfg>>
envVars == <<input, idx>>
orchVars == <<tasks, results, scraper, limiter>>
apiVars == <<jobs, fetch>>
vars == <<files, ckpt, w, wres, batch, data_queue, errors_queue, stats, cfg,
          pc, input, idx, hist, tasks, results, scraper, limiter, jobs, fetch>>

----------------------------------------------------------------------------
(* Bounds *)

MaxRows == 3        \* rows in a batch handed directly to the writer
MaxItems == 3       \* records enqueued in one pipeline scope
MaxLimit == 2       \* largest data_queue_limit tried
MaxKills == 1       \* process kills per behaviour
MaxVideos == 3      \* identifiers handed to the orchestrator
MaxConcurrency == 2 \* largest max_at_once tried
MaxRate == 2        \* largest max_per_second tried
MaxClock == 6       \* ticks after which the clock is no longer advanced

----------------------------------------------------------------------------
(* Records, rows, files *)

Cols == {"a", "b"}
Shapes == {{"a", "b"}, {"a"}}
Paths == {"data", "err"}

Rec(i, c) == [id |-> i, cols |-> c]
\* {**item, **kwargs}
Merge(item, kwargs) == [id |-> item.id, cols |-> item.cols \cup kwargs]
\* fields=None
NoFields == {}
HeaderRow(f) == [hdr |-> TRUE, id |-> 0, cols |-> f]
DataRow(r, f) == [hdr |-> FALSE, id |-> r.id, cols |-> f]

NoFile == [exists |-> FALSE, rows |-> <<>>]
\* what an earlier, complete run left behind: a header and one row
OldFile == [exists |-> TRUE,
            rows |-> <<HeaderRow(Cols), DataRow(Rec(0, Cols), Cols)>>]

CkAbsent == [st |-> "absent", pos |-> 0]
CkBad == [st |-> "bad", pos |-> 0]
\* a checkpoint that stores the position after the next row
CkAtNext(n) == [st |-> "ok", pos |-> n + 1]
\* json.dump({'position': self.last_position}, f)
CkAt(n) == [st |-> "ok", pos |-> n]

Ids(s) == [i \in DOMAIN s |-> s[i].id]
IsHeader(r) == r.hdr
IsData(r) == ~r.hdr
IsNew(r) == ~r.hdr /\ r.id # 0
HeaderCount(f) == Len(SelectSeq(f.rows, IsHeader))
DataRowsOf(f) == SelectSeq(f.rows, IsData)
\* ids of the data rows of a file, oldest first, without those of OldFile
NewIds(f) == Ids(SelectSeq(f.rows, IsNew))
Uniform(s) == \A i, j \in DOMAIN s : s[i].cols = s[j].cols

----------------------------------------------------------------------------
(* utils/helpers.py *)

file_exists(f) == f.exists /\ Len(f.rows) > 0

----------------------------------------------------------------------------
(* utils/csv.py : ResumableDictWriter and save_to_csv *)

\* start_from: int = None
NoStartFrom == -1

IdleWriter == [pc |-> "idle", path |-> "data", rows |-> <<>>, fieldnames |-> {},
               last_position |-> 0, start_position |-> 0, next |-> "idle",
               start_from |-> NoStartFrom]
NoResult == [none |-> TRUE, items_written |-> 0, start_position |-> 0]
WriteStats(n, s) == [none |-> FALSE, items_written |-> n, start_position |-> s]

\* header = set([e for d in rows_to_write for e in set(d)])
UnionOfKeys(rows) == UNION {rows[i].cols : i \in DOMAIN rows}

\* a loader without the except branch: a malformed file yields no position
LoadCheckpointUnguarded(c) ==
    IF c.st = "ok" THEN c.pos ELSE IF c.st = "bad" THEN -1 ELSE 0

\* _load_checkpoint: the stored position, or 0 when absent or unreadable
LoadCheckpoint(c) == IF c.st = "ok" THEN c.pos ELSE 0

\* save_to_csv up to and including ResumableDictWriter.__init__
NewWriter(rows, path) ==
    [pc |-> "init", path |-> path, rows |-> rows,
     fieldnames |-> UnionOfKeys(rows),
     last_position |-> LoadCheckpoint(ckpt[path]),
     start_position |-> 0, next |-> "idle", start_from |-> NoStartFrom]

\* a write_rows that ignores its start_from argument
StartAtCheckpoint(start_from, last_position) == last_position

\* write_rows, lines 112-113: start_from, when given, overrides the position
StartAt(start_from, last_position) ==
    IF start_from # NoStartFrom THEN start_from ELSE last_position

\* a writer that never truncates
OpenModeAppending(lp, f) == "a"

\* a writer that always truncates
OpenModeTruncating(lp, f) == "w"

\* __enter__: choose the mode and open the file
OpenMode(lp, f) == IF lp > 0 \/ file_exists(f) THEN "a" ELSE "w"

WEnter ==
    /\ w.pc = "init"
    /\ LET mode == OpenMode(w.last_position, files[w.path]) IN
       /\ files' = [files EXCEPT ![w.path] =
                       IF mode = "w" THEN [exists |-> TRUE, rows |-> <<>>]
                       ELSE [exists |-> TRUE, rows |-> @.rows]]
       /\ w' = [w EXCEPT
                  !.pc = IF mode = "w" THEN "header" ELSE "row",
                  !.last_position = StartAt(w.start_from, w.last_position),
                  !.start_position = StartAt(w.start_from, w.last_position)]
    /\ UNCHANGED <<ckpt, wres, batch, pipeVars, pc, envVars, hist, orchVars, apiVars>>

\* __enter__: writeheader() and flush, only in mode 'w'
WHeader ==
    /\ w.pc = "header"
    /\ files' = [files EXCEPT ![w.path].rows = Append(@, HeaderRow(w.fieldnames))]
    /\ w' = [w EXCEPT !.pc = "row"]
    /\ UNCHANGED <<ckpt, wres, batch, pipeVars, pc, envVars, hist, orchVars, apiVars>>

\* {f: row[f] for f in self.fieldnames}: KeyError unless row has every field
HasFields(row, fieldnames) == fieldnames \subseteq row.cols

\* write_rows: writerow({f: row[f] for f in fieldnames}) and flush;
\* a record lacking a field raises KeyError
WRow ==
    /\ w.pc = "row"
    /\ w.last_position < Len(w.rows)
    /\ LET row == w.rows[w.last_position + 1] IN
       IF HasFields(row, w.fieldnames)
       THEN /\ files' = [files EXCEPT ![w.path].rows =
                            Append(@, DataRow(row, w.fieldnames))]
            /\ w' = [w EXCEPT !.pc = "flushed"]
       ELSE /\ files' = files
            /\ w' = [w EXCEPT !.pc = "except"]
    /\ UNCHANGED <<ckpt, wres, batch, pipeVars, pc, envVars, hist, orchVars, apiVars>>

\* write_rows: last_position = i + 1, then _save_checkpoint opens the
\* checkpoint file for writing, which truncates it
WAdvance ==
    /\ w.pc = "flushed"
    /\ w' = [w EXCEPT !.last_position = @ + 1, !.pc = "saving", !.next = "row"]
    /\ ckpt' = [ckpt EXCEPT ![w.path] = CkBad]
    /\ UNCHANGED <<files, wres, batch, pipeVars, pc, envVars, hist, orchVars, apiVars>>

\* _save_checkpoint: json.dump and close
WDump ==
    /\ w.pc = "saving"
    /\ ckpt' = [ckpt EXCEPT ![w.path] = CkAt(w.last_position)]
    /\ w' = [w EXCEPT !.pc = w.next]
    /\ UNCHANGED <<files, wres, batch, pipeVars, pc, envVars, hist, orchVars, apiVars>>

\* an except branch that counts the failed row as written
WExceptCountsRow ==
    /\ w.pc = "except"
    /\ ckpt' = [ckpt EXCEPT ![w.path] = CkBad]
    /\ w' = [w EXCEPT !.pc = "saving", !.next = "exit_exc",
                      !.last_position = @ + 1]
    /\ UNCHANGED <<files, wres, batch, pipeVars, pc, envVars, hist, orchVars, apiVars>>

\* write_rows, except branch: log, _save_checkpoint, re-raise
WExcept ==
    /\ w.pc = "except"
    /\ ckpt' = [ckpt EXCEPT ![w.path] = CkBad]
    /\ w' = [w EXCEPT !.pc = "saving", !.next = "exit_exc"]
    /\ UNCHANGED <<files, wres, batch, pipeVars, pc, envVars, hist, orchVars, apiVars>>

\* __exit__ with an exception: close the file, _save_checkpoint
WExitExc ==
    /\ w.pc = "exit_exc"
    /\ ckpt' = [ckpt EXCEPT ![w.path] = CkBad]
    /\ w' = [w EXCEPT !.pc = "saving", !.next = "failed"]
    /\ UNCHANGED <<files, wres, batch, pipeVars, pc, envVars, hist, orchVars, apiVars>>

\* save_to_csv, except branch: the error is logged and None is returned
WFail ==
    /\ w.pc = "failed"
    /\ wres' = NoResult
    /\ w' = [w EXCEPT !.pc = "returned"]
    /\ UNCHANGED <<diskVars, batch, pipeVars, pc, envVars, hist, orchVars, apiVars>>

\* write_rows returns its statistics; __exit__ without an exception closes
\* the file and removes the checkpoint file
WExitOk ==
    /\ w.pc = "row"
    /\ w.last_position >= Len(w.rows)
    /\ wres' = WriteStats(w.last_position - w.start_position, w.start_position)
    /\ ckpt' = [ckpt EXCEPT ![w.path] = CkAbsent]
    /\ w' = [w EXCEPT !.pc = "returned"]
    /\ UNCHANGED <<files, batch, pipeVars, pc, envVars, hist, orchVars, apiVars>>

WriterStep ==
    \/ WEnter \/ WHeader \/ WRow \/ WAdvance \/ WDump
    \/ WExcept \/ WExitExc \/ WFail \/ WExitOk

WriterRunning == w.pc \notin {"idle", "returned"}

----------------------------------------------------------------------------
(* History *)

NoResults == [videos |-> <<>>, errors |-> <<>>]
NoStarts == [now |-> 0, next_start_time |-> 0, starts |-> <<>>]

MaxIds == 4         \* identifiers handed to the fetch orchestrator
MaxBatchSize == 2   \* largest IO_BATCH_SIZE tried
MaxJobs == 2        \* jobs started through POST /{tool}
MaxSeconds == 1     \* seconds the job clock advances
ToolNames == {"scrape", "fetch"}
JobIds == ToolNames \X (0..MaxSeconds)

\* "results": None, and a key that is not in cached_jobs
NoAggregate == 0
NoJob == [status |-> "none", results |-> NoAggregate, error |-> FALSE]
NoResponse == [kind |-> "none", results |-> NoAggregate, status |-> "none"]
NoJobs == [now |-> 0, cached_jobs |-> [j \in JobIds |-> NoJob], runs |-> <<>>,
           posted |-> "none", response |-> NoResponse]

NoCall == [index |-> -1, id |-> 0]
NoFetch == [pc |-> "idle", n |-> 0, size |-> 1, missing |-> {},
            num_batches |-> 0, i |-> 0, lo |-> 0, hi |-> 0, upto |-> 0,
            items |-> <<>>, last_call |-> NoCall]

NoStats == [data_queue |-> [queued |-> 0, saved |-> 0],
            errors_queue |-> [queued |-> 0, saved |-> 0]]

\* the value of a call of enqueue that has not returned
NoRet == Rec(0, {})

NoHist == [enq_data |-> <<>>, enq_err |-> <<>>, flushes |-> 0, kills |-> 0,
           killed_at |-> "none", killed_ckpt |-> "absent",
           exc |-> FALSE, raised |-> FALSE,
           item |-> NoRet, last |-> NoRet, ret |-> NoRet, rejected |-> FALSE,
           resume |-> CkAbsent, flushed |-> {}, returned |-> {}]

----------------------------------------------------------------------------
(* A direct caller of save_to_csv on one output path, killed and re-run *)

Batches ==
    UNION {[1..m -> Shapes] : m \in 0..MaxRows}

BatchOf(shapes) == [i \in DOMAIN shapes |-> Rec(i, shapes[i])]

InitWriter ==
    /\ files \in {[p \in Paths |-> NoFile], [p \in Paths |-> OldFile]}
    /\ ckpt = [p \in Paths |-> CkAbsent]
    /\ w = IdleWriter
    /\ wres = NoResult
    /\ batch \in {BatchOf(s) : s \in Batches}
    /\ data_queue = <<>>
    /\ errors_queue = <<>>
    /\ stats = NoStats
    /\ cfg = [dry_run |-> FALSE, limit |-> 1, fields |-> NoFields]
    /\ pc = "ready"
    /\ input = <<>>
    /\ idx = 0
    /\ hist = NoHist
    /\ tasks = <<>>
    /\ results = NoResults
    /\ scraper = [concurrency |-> 1, max_per_second |-> 1]
    /\ limiter = NoStarts
    /\ jobs = NoJobs
    /\ fetch = NoFetch

\* save_to_csv(batch, path) is called
Invoke ==
    /\ pc \in {"ready", "killed"}
    /\ w' = NewWriter(batch, "data")
    /\ pc' = "writing"
    /\ UNCHANGED <<diskVars, wres, batch, pipeVars, envVars, hist, orchVars, apiVars>>

\* save_to_csv has returned to the caller
Return ==
    /\ pc = "writing"
    /\ w.pc = "returned"
    /\ pc' = "returned"
    /\ w' = IdleWriter
    /\ UNCHANGED <<diskVars, wres, batch, pipeVars, envVars, hist, orchVars, apiVars>>

\* the process is killed while save_to_csv runs: memory is lost, disk stays
KillWriter ==
    /\ pc = "writing"
    /\ WriterRunning
    /\ hist.kills < MaxKills
    /\ hist' = [hist EXCEPT !.kills = @ + 1, !.killed_at = w.pc,
                            !.killed_ckpt = ckpt["data"].st]
    /\ w' = IdleWriter
    /\ pc' = "killed"
    /\ UNCHANGED <<diskVars, wres, batch, pipeVars, envVars, orchVars, apiVars>>

NextWriter == Invoke \/ WriterStep \/ Return \/ KillWriter

SpecWriter == InitWriter /\ [][NextWriter]_vars

\* the positions a caller or a checkpoint file may name: up to one past the
\* end of the longest batch
Positions == 0..(MaxRows + 1)

InitWriteRows ==
    /\ files \in {[p \in Paths |-> NoFile], [p \in Paths |-> OldFile]}
    /\ ckpt \in {[p \in Paths |-> c] :
                   c \in {CkAbsent, CkBad} \cup {CkAt(n) : n \in Positions}}
    /\ w = IdleWriter
    /\ wres = NoResult
    /\ batch \in {BatchOf(s) : s \in Batches}
    /\ data_queue = <<>>
    /\ errors_queue = <<>>
    /\ stats = NoStats
    /\ cfg = [dry_run |-> FALSE, limit |-> 1, fields |-> NoFields]
    /\ pc = "ready"
    /\ input = <<>>
    /\ idx = 0
    /\ hist = NoHist
    /\ tasks = <<>>
    /\ results = NoResults
    /\ scraper = [concurrency |-> 1, max_per_second |-> 1]
    /\ limiter = NoStarts
    /\ jobs = NoJobs
    /\ fetch = NoFetch

\* a caller constructs the writer on the path and calls
\* write_rows(batch, start_from) in its scope
InvokeWriteRows(start_from) ==
    /\ pc = "ready"
    /\ w' = [NewWriter(batch, "data") EXCEPT !.start_from = start_from]
    /\ hist' = [hist EXCEPT !.resume = ckpt["data"]]
    /\ pc' = "writing"
    /\ UNCHANGED <<diskVars, wres, batch, pipeVars, envVars, orchVars, apiVars>>

NextWriteRows ==
    \/ \E start_from \in Positions \cup {NoStartFrom} :
          InvokeWriteRows(start_from)
    \/ WriterStep
    \/ Return

SpecWriteRows == InitWriteRows /\ [][NextWriteRows]_vars

----------------------------------------------------------------------------
(* models/pipeline.py : DataPipeline *)

\* _get_queue: the output path and the counter of the selected queue
PathOf(is_error) == IF is_error THEN "err" ELSE "data"
\* a selection that always takes the counter of the data queue
CounterOfData(is_error) == "data_queue"
CounterOf(is_error) == IF is_error THEN "errors_queue" ELSE "data_queue"

\* enqueue: the condition under which the selected queue is flushed
FlushDue(dq) == Len(dq) >= cfg.limit /\ ~cfg.dry_run

\* __aexit__: the condition under which the queues are flushed
ExitFlushDue == Len(data_queue) > 0

\* __aenter__: the files removed when the scope is entered
RemovedOnEnter == IF cfg.dry_run THEN {} ELSE {"data"}

\* a validation that lets every item through
IsMappingAlways(x) == TRUE

\* enqueue, line 101: isinstance(item, dict)
IsMapping(x) == x.is_dict

\* enqueue, line 115: the value returned to the caller
Returned(item, record) == item

\* enqueue, lines 101-102 and 117-119: an item that is not a dict raises
\* AsyncException, which is logged and re-raised; nothing else is touched
EnqueueReject ==
    /\ UNCHANGED <<data_queue, errors_queue, stats, w>>
    /\ hist' = [hist EXCEPT !.exc = TRUE, !.rejected = TRUE]

\* a queue that takes new records at its head
QueuePrepend(queue, rec) == <<rec>> \o queue

\* enqueue, line 106: queue.append
QueueAppend(queue, rec) == Append(queue, rec)

\* enqueue, lines 105-111: append the merged record to the selected queue,
\* count it, and call save_to_csv on that queue when the data queue is full;
\* without a flush the call returns at once (line 115)
EnqueueCall(item, kwargs, is_error) ==
    LET rec == Merge(item, kwargs)
        q == IF is_error THEN QueueAppend(errors_queue, rec)
                          ELSE QueueAppend(data_queue, rec)
        dq == IF is_error THEN data_queue ELSE q
        h == [hist EXCEPT !.item = item, !.last = rec,
                          !.ret = IF FlushDue(dq) THEN @ ELSE Returned(item, rec),
                          !.returned = IF FlushDue(dq) THEN @
                                       ELSE @ \cup {<<PathOf(is_error), rec>>}]
    IN  /\ data_queue' = dq
        /\ errors_queue' = (IF is_error THEN q ELSE errors_queue)
        /\ stats' = [stats EXCEPT ![CounterOf(is_error)].queued = @ + 1]
        /\ hist' = IF is_error
                   THEN [h EXCEPT !.enq_err = Append(@, rec)]
                   ELSE [h EXCEPT !.enq_data = Append(@, rec)]
        /\ w' = IF FlushDue(dq) THEN NewWriter(q, PathOf(is_error)) ELSE w

\* a caller that takes a missing result for an empty one
ResultNeverRaises(written) == FALSE

\* written.items_written: AttributeError when save_to_csv returned None
ResultRaises(written) == written.none

\* enqueue, lines 112-119, after save_to_csv returned: count what was saved
\* and clear the queue; save_to_csv returning None makes
\* written.items_written raise, which is logged and re-raised
EnqueueResume(leaves_scope) ==
    /\ w.pc = "returned"
    /\ w' = IdleWriter
    /\ IF ResultRaises(wres)
       THEN /\ UNCHANGED <<data_queue, errors_queue, stats>>
            /\ hist' = [hist EXCEPT !.exc = leaves_scope,
                                    !.flushed = @ \cup {w.path}]
       ELSE /\ data_queue' = (IF w.path = "data" THEN <<>> ELSE data_queue)
            /\ errors_queue' = (IF w.path = "err" THEN <<>> ELSE errors_queue)
            /\ stats' = [stats EXCEPT
                    ![CounterOf(w.path = "err")].saved = @ + wres.items_written]
            /\ hist' = [hist EXCEPT
                    !.flushes = IF w.path = "data" THEN @ + 1 ELSE @,
                    !.flushed = @ \cup {w.path},
                    !.returned = @ \cup {<<w.path, hist.last>>},
                    !.ret = Returned(hist.item, hist.last)]

\* DataPipeline(...) is constructed and entered: __aenter__
AEnter ==
    /\ pc = "new"
    /\ files' = [p \in Paths |->
                    IF p \in RemovedOnEnter THEN NoFile ELSE files[p]]
    /\ pc' = "open"
    /\ UNCHANGED <<ckpt, writerVars, batch, pipeVars, envVars, hist, orchVars, apiVars>>

\* the scope body calls enqueue with its next record
BodyEnqueue ==
    /\ pc = "open"
    /\ idx < Len(input)
    /\ LET x == input[idx + 1] IN
       IF IsMapping(x)
       THEN /\ EnqueueCall(x.rec, x.kwargs, x.is_error)
            /\ pc' = IF w'.pc = "init" THEN "enq_flush" ELSE "open"
       ELSE /\ EnqueueReject
            /\ pc' = "exiting"
    /\ idx' = idx + 1
    /\ UNCHANGED <<diskVars, wres, batch, cfg, input, orchVars, apiVars>>

\* enqueue returns to the scope body, or raises out of it
BodyResume ==
    /\ pc = "enq_flush"
    /\ EnqueueResume(TRUE)
    /\ pc' = IF ResultRaises(wres) THEN "exiting" ELSE "open"
    /\ UNCHANGED <<diskVars, wres, batch, cfg, envVars, orchVars, apiVars>>

\* the scope body ends: normally once every record was enqueued, or at any
\* point by an exception
BodyLeave ==
    /\ pc = "open"
    /\ \E exc \in BOOLEAN :
          /\ ~exc => idx = Len(input)
          /\ hist' = [hist EXCEPT !.exc = exc]
    /\ pc' = "exiting"
    /\ UNCHANGED <<diskVars, writerVars, batch, pipeVars, envVars, orchVars, apiVars>>

\* __aexit__, lines 60-65: when the data queue is not empty, save_to_csv is
\* called on the data queue
AExit ==
    /\ pc = "exiting"
    /\ IF ExitFlushDue
       THEN /\ w' = NewWriter(data_queue, "data")
            /\ pc' = "exit_data"
       ELSE /\ w' = w
            /\ pc' = "done"
    /\ UNCHANGED <<diskVars, wres, batch, pipeVars, envVars, hist, orchVars, apiVars>>

\* __aexit__, line 66 for the data queue, then line 65 for the errors queue
AExitData ==
    /\ pc = "exit_data"
    /\ w.pc = "returned"
    /\ IF ResultRaises(wres)
       THEN /\ hist' = [hist EXCEPT !.raised = TRUE,
                                    !.flushed = @ \cup {w.path}]
            /\ w' = IdleWriter
            /\ pc' = "done"
            /\ stats' = stats
       ELSE /\ stats' = [stats EXCEPT !.data_queue.saved = @ + wres.items_written]
            /\ hist' = [hist EXCEPT !.flushes = @ + 1,
                                    !.flushed = @ \cup {w.path}]
            /\ w' = NewWriter(errors_queue, "err")
            /\ pc' = "exit_err"
    /\ UNCHANGED <<diskVars, wres, batch, data_queue, errors_queue, cfg,
                   envVars, orchVars, apiVars>>

\* __aexit__, line 66 for the errors queue, then the summary is logged
AExitErr ==
    /\ pc = "exit_err"
    /\ w.pc = "returned"
    /\ IF ResultRaises(wres)
       THEN /\ hist' = [hist EXCEPT !.raised = TRUE,
                                    !.flushed = @ \cup {w.path}]
            /\ stats' = stats
       ELSE /\ stats' = [stats EXCEPT !.errors_queue.saved = @ + wres.items_written]
            /\ hist' = [hist EXCEPT !.flushed = @ \cup {w.path}]
    /\ w' = IdleWriter
    /\ pc' = "done"
    /\ UNCHANGED <<diskVars, wres, batch, data_queue, errors_queue, cfg,
                   envVars, orchVars, apiVars>>

Inputs ==
    UNION {[1..n -> Shapes \X BOOLEAN] : n \in 0..MaxItems}

InputOf(f) == [i \in DOMAIN f |-> [rec |-> Rec(i, f[i][1]), is_error |-> f[i][2],
                                    is_dict |-> TRUE, kwargs |-> {}]]

InitPipeline ==
    /\ files \in {[p \in Paths |-> NoFile], [p \in Paths |-> OldFile]}
    /\ ckpt = [p \in Paths |-> CkAbsent]
    /\ w = IdleWriter
    /\ wres = NoResult
    /\ batch = <<>>
    /\ data_queue = <<>>
    /\ errors_queue = <<>>
    /\ stats = NoStats
    /\ cfg \in [dry_run : BOOLEAN, limit : 1..MaxLimit, fields : {NoFields}]
    /\ pc = "new"
    /\ input \in {InputOf(f) : f \in Inputs}
    /\ idx = 0
    /\ hist = NoHist
    /\ tasks = <<>>
    /\ results = NoResults
    /\ scraper = [concurrency |-> 1, max_per_second |-> 1]
    /\ limiter = NoStarts
    /\ jobs = NoJobs
    /\ fetch = NoFetch

NextPipeline ==
    \/ AEnter \/ BodyEnqueue \/ BodyResume \/ BodyLeave
    \/ AExit \/ AExitData \/ AExitErr
    \/ WriterStep

SpecPipeline == InitPipeline /\ [][NextPipeline]_vars

\* A scope body that passes extra fields and items that are not mappings,
\* under a pipeline constructed with or without an explicit column list
KwargSets == {{}, {"b"}}
FieldLists == {NoFields, {"a"}}

\* an item that is not a mapping ends the scope body, so it comes last
EnqueueInputs ==
    {f \in UNION {[1..n -> KwargSets \X BOOLEAN \X BOOLEAN] : n \in 0..MaxItems} :
        \A i \in DOMAIN f : i < Len(f) => f[i][3]}

EnqueueInputOf(f) ==
    [i \in DOMAIN f |-> [rec |-> Rec(i, {"a"}), is_error |-> f[i][2],
                         is_dict |-> f[i][3], kwargs |-> f[i][1]]]

InitEnqueue ==
    /\ files \in {[p \in Paths |-> NoFile], [p \in Paths |-> OldFile]}
    /\ ckpt = [p \in Paths |-> CkAbsent]
    /\ w = IdleWriter
    /\ wres = NoResult
    /\ batch = <<>>
    /\ data_queue = <<>>
    /\ errors_queue = <<>>
    /\ stats = NoStats
    /\ cfg \in [dry_run : BOOLEAN, limit : 1..MaxLimit, fields : FieldLists]
    /\ pc = "new"
    /\ input \in {EnqueueInputOf(f) : f \in EnqueueInputs}
    /\ idx = 0
    /\ hist = NoHist
    /\ tasks = <<>>
    /\ results = NoResults
    /\ scraper = [concurrency |-> 1, max_per_second |-> 1]
    /\ limiter = NoStarts
    /\ jobs = NoJobs
    /\ fetch = NoFetch

SpecEnqueue == InitEnqueue /\ [][NextPipeline]_vars

\* the process is killed inside the scope: memory is lost, disk stays
Kill ==
    /\ pc \in {"open", "enq_flush", "exiting", "exit_data", "exit_err"}
    /\ hist.kills < MaxKills
    /\ hist' = [NoHist EXCEPT !.kills = hist.kills + 1,
                              !.killed_at = w.pc,
                              !.killed_ckpt = ckpt["data"].st]
    /\ pc' = "killed"
    /\ w' = IdleWriter
    /\ data_queue' = <<>>
    /\ errors_queue' = <<>>
    /\ stats' = NoStats
    /\ UNCHANGED <<diskVars, wres, batch, cfg, envVars, orchVars, apiVars>>

\* the same program is run again on the same output path and input
Rerun ==
    /\ pc = "killed"
    /\ idx' = 0
    /\ pc' = "new"
    /\ UNCHANGED <<diskVars, writerVars, batch, pipeVars, input, hist, orchVars, apiVars>>

NextResume == NextPipeline \/ Kill \/ Rerun

SpecResume == InitPipeline /\ [][NextResume]_vars

\* the data records of the input, in input order
IsSuccess(x) == x.is_dict /\ ~x.is_error
DataInput == [i \in DOMAIN SelectSeq(input, IsSuccess) |->
                 SelectSeq(input, IsSuccess)[i].rec]

\* a file that holds exactly one header row, first, and then the given records
HoldsExactly(f, recs) ==
    /\ f.exists
    /\ Len(f.rows) = Len(recs) + 1
    /\ f.rows[1].hdr
    /\ HeaderCount(f) = 1
    /\ NewIds(f) = Ids(recs)

CeilDiv(n, d) == (n + d - 1) \div d

----------------------------------------------------------------------------
(* lib/exceptions.py, lib/scraper.py : the scrape orchestrator *)

Outcomes == {"ok", "fail", "cb_fail"}

\* the attributes AsyncException and VideoError set on themselves
VideoErrorKeys == {"message", "detail", "errors", "video_id"}

\* e.__dict__ of the exception caught by _scrape_to_pipeline
ExcDict(kind) == IF kind = "VideoError" THEN VideoErrorKeys ELSE {}

\* `except Exception as e` in _scrape_to_pipeline
Caught(kind) == kind \in {"VideoError", "other"}

\* the codes the two branches of _scrape_to_pipeline return with the record
SuccessCode == 0
ErrorCode == -1

\* a bucketing test that is off by one
BucketOffByOne(err_code) == IF err_code > 0 THEN "videos" ELSE "errors"

\* key = 'videos' if err_code > -1 else 'errors'
Bucket(err_code) == IF err_code > -1 THEN "videos" ELSE "errors"

\* the two limits passed the wrong way round
MaxAtOnceSwapped == scraper.max_per_second
MaxPerSecondSwapped == scraper.concurrency

\* aiometer.run_all(..., max_per_second=self.max_per_second,
\*                       max_at_once=self.concurrency)
MaxAtOnce == scraper.concurrency
MaxPerSecond == scraper.max_per_second

NewTask(o) == [st |-> "waiting", outcome |-> o, exc |-> "none", code |-> 0]

\* callables that were started and have not resolved
InFlight == {i \in DOMAIN tasks :
                tasks[i].st \notin {"waiting", "done", "raised"}}

\* the limiter starts a callable only while fewer than max_at_once are in flight
LimiterAdmits == Cardinality(InFlight) < MaxAtOnce

\* the callables are started in input order
NextToStart(i) ==
    /\ i \in DOMAIN tasks
    /\ tasks[i].st = "waiting"
    /\ \A j \in 1..(i - 1) : tasks[j].st # "waiting"

\* a task may take a step: run_all is running, no task has raised out of its
\* callable, and no other task is inside enqueue (enqueue never suspends)
CanRun ==
    /\ pc = "open"
    /\ w.pc = "idle"
    /\ \A i \in DOMAIN tasks : tasks[i].st # "raised"

\* run_all starts the next callable; it runs up to `await progress_callback`
StartTask ==
    /\ CanRun
    /\ LimiterAdmits
    /\ \E i \in DOMAIN tasks :
          /\ NextToStart(i)
          /\ tasks' = [tasks EXCEPT ![i].st = "callback"]
    /\ UNCHANGED <<diskVars, writerVars, batch, pipeVars, pc, envVars, hist,
                   results, scraper, apiVars, limiter>>

\* progress_callback returns or raises
Callback ==
    /\ CanRun
    /\ \E i \in DOMAIN tasks :
          /\ tasks[i].st = "callback"
          /\ tasks' = IF tasks[i].outcome = "cb_fail"
                      THEN [tasks EXCEPT ![i].st = "caught", ![i].exc = "other"]
                      ELSE [tasks EXCEPT ![i].st = "scraping"]
    /\ UNCHANGED <<diskVars, writerVars, batch, pipeVars, pc, envVars, hist,
                   results, scraper, apiVars, limiter>>

\* scrape_video_stats returns a Video: enqueue(asdict(video)), code 0
CollectOk ==
    /\ CanRun
    /\ \E i \in DOMAIN tasks :
          /\ tasks[i].st = "scraping"
          /\ tasks[i].outcome = "ok"
          /\ EnqueueCall(Rec(i, Cols), {}, FALSE)
          /\ tasks' = IF w'.pc = "init"
                      THEN [tasks EXCEPT ![i].st = "enq_data"]
                      ELSE [tasks EXCEPT ![i].st = "done", ![i].code = SuccessCode]
    /\ UNCHANGED <<diskVars, wres, batch, cfg, pc, envVars,
                   results, scraper, apiVars, limiter>>

\* scrape_video_stats raises VideoError
CollectFail ==
    /\ CanRun
    /\ \E i \in DOMAIN tasks :
          /\ tasks[i].st = "scraping"
          /\ tasks[i].outcome = "fail"
          /\ tasks' = [tasks EXCEPT ![i].st = "caught", ![i].exc = "VideoError"]
    /\ UNCHANGED <<diskVars, writerVars, batch, pipeVars, pc, envVars, hist,
                   results, scraper, apiVars, limiter>>

\* the except branch: enqueue(e.__dict__, is_error=True), code -1
TaskExcept ==
    /\ CanRun
    /\ \E i \in DOMAIN tasks :
          /\ tasks[i].st = "caught"
          /\ IF Caught(tasks[i].exc)
             THEN /\ EnqueueCall(Rec(i, ExcDict(tasks[i].exc)), {}, TRUE)
                  /\ tasks' = IF w'.pc = "init"
                              THEN [tasks EXCEPT ![i].st = "enq_err"]
                              ELSE [tasks EXCEPT ![i].st = "done",
                                                 ![i].code = ErrorCode]
             ELSE /\ tasks' = [tasks EXCEPT ![i].st = "raised"]
                  /\ UNCHANGED <<w, data_queue, errors_queue, stats, hist>>
    /\ UNCHANGED <<diskVars, wres, batch, cfg, pc, envVars,
                   results, scraper, apiVars, limiter>>

\* enqueue returns into _scrape_to_pipeline, or raises: inside the try block
\* the exception is caught, inside the except branch it leaves the callable
\* (state "raised": run_all then stops starting and resuming callables)
TaskResume ==
    /\ pc = "open"
    /\ \E i \in DOMAIN tasks :
          /\ tasks[i].st \in {"enq_data", "enq_err"}
          /\ EnqueueResume(FALSE)
          /\ tasks' =
               IF ResultRaises(wres)
               THEN IF tasks[i].st = "enq_data"
                    THEN [tasks EXCEPT ![i].st = "caught", ![i].exc = "other"]
                    ELSE [tasks EXCEPT ![i].st = "raised"]
               ELSE [tasks EXCEPT ![i].st = "done",
                        ![i].code = IF tasks[i].st = "enq_data"
                                    THEN SuccessCode ELSE ErrorCode]
    /\ UNCHANGED <<diskVars, wres, batch, cfg, pc, envVars,
                   results, scraper, apiVars, limiter>>

\* run_all returns the list of results: the scope body ends
RunAllReturn ==
    /\ CanRun
    /\ \A i \in DOMAIN tasks : tasks[i].st = "done"
    /\ pc' = "exiting"
    /\ UNCHANGED <<diskVars, writerVars, batch, pipeVars, envVars, hist, orchVars, apiVars>>

\* the records of the first k results whose code selects the bucket
RECURSIVE Bucketed(_, _)
Bucketed(k, key) ==
    IF k = 0 THEN <<>>
    ELSE IF Bucket(tasks[k].code) = key
         THEN Append(Bucketed(k - 1, key), k)
         ELSE Bucketed(k - 1, key)

\* scrape_multiple_videos: bucket the results into videos and errors
Aggregate ==
    /\ pc = "done"
    /\ ~hist.exc /\ ~hist.raised
    /\ results' = [videos |-> Bucketed(Len(tasks), "videos"),
                   errors |-> Bucketed(Len(tasks), "errors")]
    /\ pc' = "returned"
    /\ UNCHANGED <<diskVars, writerVars, batch, pipeVars, envVars, hist,
                   tasks, scraper, apiVars, limiter>>

\* an exception that left the pipeline scope reaches the caller
Propagate ==
    /\ pc = "done"
    /\ hist.exc \/ hist.raised
    /\ pc' = "raised"
    /\ UNCHANGED <<diskVars, writerVars, batch, pipeVars, envVars, hist, orchVars, apiVars>>

TaskLists == UNION {[1..n -> Outcomes] : n \in 0..MaxVideos}

InitOrch ==
    /\ files \in {[p \in Paths |-> NoFile], [p \in Paths |-> OldFile]}
    /\ ckpt = [p \in Paths |-> CkAbsent]
    /\ w = IdleWriter
    /\ wres = NoResult
    /\ batch = <<>>
    /\ data_queue = <<>>
    /\ errors_queue = <<>>
    /\ stats = NoStats
    /\ cfg \in [dry_run : BOOLEAN, limit : 1..MaxLimit, fields : {NoFields}]
    /\ pc = "new"
    /\ input = <<>>
    /\ idx = 0
    /\ hist = NoHist
    /\ tasks \in {[i \in DOMAIN o |-> NewTask(o[i])] : o \in TaskLists}
    /\ results = NoResults
    /\ scraper \in [concurrency : 1..MaxConcurrency, max_per_second : 1..MaxRate]
    /\ limiter = NoStarts
    /\ jobs = NoJobs
    /\ fetch = NoFetch

NextOrch ==
    \/ AEnter
    \/ StartTask \/ Callback \/ CollectOk \/ CollectFail \/ TaskExcept
    \/ TaskResume \/ RunAllReturn
    \/ AExit \/ AExitData \/ AExitErr
    \/ Aggregate \/ Propagate
    \/ WriterStep

SpecOrch == InitOrch /\ [][NextOrch]_vars

----------------------------------------------------------------------------
(* The limiter on a clock: run_all over callables with opaque bodies *)

RECURSIVE Product(_)
Product(n) == IF n <= 1 THEN 1 ELSE n * Product(n - 1)

\* clock resolution: every tried rate divides a second into whole ticks
TicksPerSecond == Product(MaxRate)

\* ticks between two consecutive starts
Period == TicksPerSecond \div MaxPerSecond

\* the limiter starts a callable no earlier than one period after the last
RateAdmits == limiter.now >= limiter.next_start_time

\* run_all starts the next callable
StartTimed ==
    /\ pc = "metering"
    /\ LimiterAdmits
    /\ RateAdmits
    /\ \E i \in DOMAIN tasks :
          /\ NextToStart(i)
          /\ tasks' = [tasks EXCEPT ![i].st = "running"]
    /\ limiter' = [limiter EXCEPT !.next_start_time = limiter.now + Period,
                                  !.starts = Append(@, limiter.now)]
    /\ UNCHANGED <<diskVars, writerVars, batch, pipeVars, pc, envVars, hist,
                   results, scraper, apiVars>>

\* a callable resolves; a zero-cost body resolves in the tick it started in
Resolve ==
    /\ pc = "metering"
    /\ \E i \in DOMAIN tasks :
          /\ tasks[i].st = "running"
          /\ tasks' = [tasks EXCEPT ![i].st = "done"]
    /\ UNCHANGED <<diskVars, writerVars, batch, pipeVars, pc, envVars, hist,
                   results, scraper, apiVars, limiter>>

\* time passes
Tick ==
    /\ pc = "metering"
    /\ limiter.now < MaxClock
    /\ limiter' = [limiter EXCEPT !.now = @ + 1]
    /\ UNCHANGED <<diskVars, writerVars, batch, pipeVars, pc, envVars, hist,
                   tasks, results, scraper, apiVars>>

InitLimiter ==
    /\ files = [p \in Paths |-> NoFile]
    /\ ckpt = [p \in Paths |-> CkAbsent]
    /\ w = IdleWriter
    /\ wres = NoResult
    /\ batch = <<>>
    /\ data_queue = <<>>
    /\ errors_queue = <<>>
    /\ stats = NoStats
    /\ cfg = [dry_run |-> TRUE, limit |-> 1, fields |-> NoFields]
    /\ pc = "metering"
    /\ input = <<>>
    /\ idx = 0
    /\ hist = NoHist
    /\ tasks \in {[i \in 1..n |-> NewTask("ok")] : n \in 0..MaxVideos}
    /\ results = NoResults
    /\ scraper \in [concurrency : 1..MaxConcurrency, max_per_second : 1..MaxRate]
    /\ limiter = NoStarts
    /\ jobs = NoJobs
    /\ fetch = NoFetch

NextLimiter == StartTimed \/ Resolve \/ Tick

SpecLimiter == InitLimiter /\ [][NextLimiter]_vars

StartsWithin(t) == {k \in DOMAIN limiter.starts :
                       t <= limiter.starts[k] /\ limiter.starts[k] < t + TicksPerSecond}

Ok(i) == tasks[i].outcome = "ok"
InSeq(x, s) == \E k \in DOMAIN s : s[k] = x

(***************************************************************************)
(* The job layer: POST /{tool_name}, run_tool, GET /results/{job_id}       *)
(***************************************************************************)

\* f"{tool_name}-{datetime.now().strftime('%Y%m%d_%H%M%S')}": the tool and
\* the second of the request
JobId(tool_name) == <<tool_name, jobs.now>>

PendingJob == [status |-> "pending", results |-> NoAggregate, error |-> FALSE]

RunsAt(st) == {r \in 1..Len(jobs.runs) : jobs.runs[r].st = st}

\* the clock of datetime.now() reaches the next second
SecondPasses ==
    /\ jobs.now < MaxSeconds
    /\ jobs' = [jobs EXCEPT !.now = @ + 1]
    /\ UNCHANGED <<diskVars, writerVars, batch, pipeVars, pc, envVars, hist,
                   orchVars, fetch>>

\* POST with a tool name that is not in yt_data_tools
StartToolInvalid ==
    /\ jobs.posted # "error"
    /\ jobs' = [jobs EXCEPT !.posted = "error"]
    /\ UNCHANGED <<diskVars, writerVars, batch, pipeVars, pc, envVars, hist,
                   orchVars, fetch>>

\* POST /{tool_name}: the entry of the job id is (re)created as pending and
\* run_tool is added to the background tasks
StartTool(tool_name) ==
    /\ Len(jobs.runs) < MaxJobs
    /\ jobs' = [jobs EXCEPT
                  !.cached_jobs[JobId(tool_name)] = PendingJob,
                  !.runs = Append(@, [job_id |-> JobId(tool_name),
                                      st |-> "queued"]),
                  !.posted = "job_id"]
    /\ UNCHANGED <<diskVars, writerVars, batch, pipeVars, pc, envVars, hist,
                   orchVars, fetch>>

\* run_tool up to its await of the tool's task
RunToolBegin(r) ==
    /\ r \in RunsAt("queued")
    /\ jobs' = [jobs EXCEPT
                  !.cached_jobs[jobs.runs[r].job_id].status = "running",
                  !.runs[r].st = "running"]
    /\ UNCHANGED <<diskVars, writerVars, batch, pipeVars, pc, envVars, hist,
                   orchVars, fetch>>

\* the task returned its aggregate: status and results are set with no
\* await between them
RunToolReturn(r) ==
    /\ r \in RunsAt("running")
    /\ jobs' = [jobs EXCEPT
                  !.cached_jobs[jobs.runs[r].job_id].status = "completed",
                  !.cached_jobs[jobs.runs[r].job_id].results = r,
                  !.runs[r].st = "done"]
    /\ UNCHANGED <<diskVars, writerVars, batch, pipeVars, pc, envVars, hist,
                   orchVars, fetch>>

\* the task raised
RunToolRaise(r) ==
    /\ r \in RunsAt("running")
    /\ jobs' = [jobs EXCEPT
                  !.cached_jobs[jobs.runs[r].job_id].status = "failed",
                  !.cached_jobs[jobs.runs[r].job_id].error = TRUE,
                  !.runs[r].st = "done"]
    /\ UNCHANGED <<diskVars, writerVars, batch, pipeVars, pc, envVars, hist,
                   orchVars, fetch>>

ResultsResponse(job) ==
    IF job.status = "none"
    THEN [kind |-> "not found", results |-> NoAggregate, status |-> job.status]
    ELSE IF job.status # "completed"
    THEN [kind |-> "not completed", results |-> NoAggregate,
          status |-> job.status]
    ELSE [kind |-> "results", results |-> job.results, status |-> job.status]

\* GET /results/{job_id}
GetResults(job_id) ==
    /\ jobs.response # ResultsResponse(jobs.cached_jobs[job_id])
    /\ jobs' = [jobs EXCEPT
                  !.response = ResultsResponse(jobs.cached_jobs[job_id])]
    /\ UNCHANGED <<diskVars, writerVars, batch, pipeVars, pc, envVars, hist,
                   orchVars, fetch>>

InitApi ==
    /\ files = [p \in Paths |-> NoFile]
    /\ ckpt = [p \in Paths |-> CkAbsent]
    /\ w = IdleWriter
    /\ wres = NoResult
    /\ batch = <<>>
    /\ data_queue = <<>>
    /\ errors_queue = <<>>
    /\ stats = NoStats
    /\ cfg = [dry_run |-> FALSE, limit |-> 1, fields |-> NoFields]
    /\ pc = "serving"
    /\ input = <<>>
    /\ idx = 0
    /\ hist = NoHist
    /\ tasks = <<>>
    /\ results = NoResults
    /\ scraper = [concurrency |-> 1, max_per_second |-> 1]
    /\ limiter = NoStarts
    /\ jobs = NoJobs
    /\ fetch = NoFetch

NextApi ==
    \/ SecondPasses
    \/ StartToolInvalid
    \/ \E tool_name \in ToolNames : StartTool(tool_name)
    \/ \E r \in 1..MaxJobs : RunToolBegin(r)
    \/ \E r \in 1..MaxJobs : RunToolReturn(r)
    \/ \E r \in 1..MaxJobs : RunToolRaise(r)
    \/ \E job_id \in JobIds : GetResults(job_id)

SpecApi == InitApi /\ [][NextApi]_vars

(***************************************************************************)
(* The fetch orchestrator: fetch_multiple_videos and its run_tasks         *)
(***************************************************************************)

\* the cap on int(len(video_ids) / IO_BATCH_SIZE)
BatchCap == 10000
\* IO_CONCURRENCY_LIMIT, the max_at_once of every run_all
IoConcurrencyLimit == 5

Min(a, b) == IF a < b THEN a ELSE b

\* min(int(len(video_ids) / IO_BATCH_SIZE), 10000) + 1
NumBatches(n, size) == Min(n \div size, BatchCap) + 1

\* the bounds of list(video_ids)[i * size : (i + 1) * size]; identifiers are
\* named by their position 1..n in the list
SliceLo(i, size, n) == Min(i * size, n)
SliceHi(i, size, n) == Min((i + 1) * size, n)

\* response['items']: the identifiers of the chunk the API has a video for,
\* in request order, one waiting callable each
ItemsOf(i, lo, hi, missing) ==
    LET got == SelectSeq([k \in 1..(hi - lo) |-> lo + k],
                         LAMBDA v : v \notin missing)
    IN  [k \in 1..Len(got) |-> [chunk |-> i, id |-> got[k], st |-> "waiting"]]

Unfinished(items) == SelectSeq(items, LAMBDA c : c.st # "done")

RunAllStarted(items) == \A k \in DOMAIN items : items[k].st # "waiting"
\* aiometer.run_all resolves once every callable has completed
RunAllDone(items) == \A k \in DOMAIN items : items[k].st = "done"

\* the index enumerate(response['items']) gives the k-th callable
TaskIndex(k, id) == k - 1

\* lines 72-73 and the entry of the pipeline scope
FetchBegin ==
    /\ fetch.pc = "start"
    /\ fetch' = [fetch EXCEPT !.pc = "loop",
                               !.num_batches = NumBatches(fetch.n, fetch.size)]
    /\ UNCHANGED <<diskVars, writerVars, batch, pipeVars, pc, envVars, hist,
                   orchVars, jobs>>

\* one pass of the for loop up to the call of run_all: slice, request,
\* one callable per returned item
RequestBatch ==
    /\ fetch.pc = "loop"
    /\ fetch.i < fetch.num_batches
    /\ LET lo == SliceLo(fetch.i, fetch.size, fetch.n)
           hi == SliceHi(fetch.i, fetch.size, fetch.n)
       IN  fetch' = [fetch EXCEPT
                       !.pc = "running", !.lo = lo, !.hi = hi,
                       !.upto = fetch.hi,
                       !.items = Unfinished(@)
                                 \o ItemsOf(fetch.i, lo, hi, fetch.missing)]
    /\ UNCHANGED <<diskVars, writerVars, batch, pipeVars, pc, envVars, hist,
                   orchVars, jobs>>

\* run_all starts the callables in order, at most IO_CONCURRENCY_LIMIT at
\* once; the callable parses its item and calls progress_callback
StartCallable(k) ==
    /\ fetch.pc = "running"
    /\ k \in DOMAIN fetch.items
    /\ fetch.items[k].st = "waiting"
    /\ \A j \in 1..(k - 1) : fetch.items[j].st # "waiting"
    /\ Cardinality({j \in DOMAIN fetch.items : fetch.items[j].st = "running"})
          < IoConcurrencyLimit
    /\ fetch' = [fetch EXCEPT
                    !.items[k].st = "running",
                    !.last_call = [index |-> TaskIndex(k, fetch.items[k].id),
                                   id |-> fetch.items[k].id]]
    /\ UNCHANGED <<diskVars, writerVars, batch, pipeVars, pc, envVars, hist,
                   orchVars, jobs>>

\* the callable returns from pipeline.enqueue
FinishCallable(k) ==
    /\ fetch.pc = "running"
    /\ k \in DOMAIN fetch.items
    /\ fetch.items[k].st = "running"
    /\ fetch' = [fetch EXCEPT !.items[k].st = "done"]
    /\ UNCHANGED <<diskVars, writerVars, batch, pipeVars, pc, envVars, hist,
                   orchVars, jobs>>

\* run_all resolved, the results are bucketed and the loop goes on
RunAllReturns ==
    /\ fetch.pc = "running"
    /\ RunAllDone(fetch.items)
    /\ fetch' = [fetch EXCEPT !.pc = "loop", !.i = @ + 1]
    /\ UNCHANGED <<diskVars, writerVars, batch, pipeVars, pc, envVars, hist,
                   orchVars, jobs>>

\* range(num_batches) is exhausted, the scope exits and results is returned
FetchReturn ==
    /\ fetch.pc = "loop"
    /\ fetch.i = fetch.num_batches
    /\ fetch' = [fetch EXCEPT !.pc = "returned"]
    /\ UNCHANGED <<diskVars, writerVars, batch, pipeVars, pc, envVars, hist,
                   orchVars, jobs>>

FetchInputs ==
    {[NoFetch EXCEPT !.pc = "start", !.n = n, !.size = size, !.missing = m] :
        n \in 0..MaxIds, size \in 1..MaxBatchSize, m \in SUBSET (1..MaxIds)}
    \cup {[NoFetch EXCEPT !.pc = "start", !.n = BatchCap + 2, !.size = size] :
             size \in 1..MaxBatchSize}

InitFetch ==
    /\ files = [p \in Paths |-> NoFile]
    /\ ckpt = [p \in Paths |-> CkAbsent]
    /\ w = IdleWriter
    /\ wres = NoResult
    /\ batch = <<>>
    /\ data_queue = <<>>
    /\ errors_queue = <<>>
    /\ stats = NoStats
    /\ cfg = [dry_run |-> FALSE, limit |-> 1, fields |-> NoFields]
    /\ pc = "fetching"
    /\ input = <<>>
    /\ idx = 0
    /\ hist = NoHist
    /\ tasks = <<>>
    /\ results = NoResults
    /\ scraper = [concurrency |-> 1, max_per_second |-> 1]
    /\ limiter = NoStarts
    /\ jobs = NoJobs
    /\ fetch \in {x \in FetchInputs : x.missing \subseteq 1..x.n}

NextFetch ==
    \/ FetchBegin
    \/ RequestBatch
    \/ \E k \in DOMAIN fetch.items : StartCallable(k)
    \/ \E k \in DOMAIN fetch.items : FinishCallable(k)
    \/ RunAllReturns
    \/ FetchReturn

SpecFetch == InitFetch /\ [][NextFetch]_vars

----------------------------------------------------------------------------
(* C1: after any kill during write_rows and a re-invocation with the same
   path, checkpoint file and batch, the file holds each row of the batch
   exactly once, in the original order. *)
C1_CrashRecoveryIdempotence ==
    (pc = "returned" /\ ~wres.none) => NewIds(files["data"]) = Ids(batch)

(* C2: with N < threshold valid success records enqueued in a non-dry-run
   scope (N = 0 included), the data file is not written inside the scope, and
   after scope exit it holds one header row followed by the N data rows. *)
C2_BelowThresholdWrittenAtExit ==
    (~cfg.dry_run /\ Len(hist.enq_data) < cfg.limit /\ Uniform(hist.enq_data))
    => /\ pc = "open" => ~files["data"].exists
       /\ pc = "done" => HoldsExactly(files["data"], hist.enq_data)

(* C3: with N >= threshold valid success records enqueued in a non-dry-run
   scope, after scope exit the data file holds exactly the N data rows, written
   by at least ceil(N/threshold) flushes, under one header row that is first. *)
C3_AtLeastThresholdAllWritten ==
    (pc = "done" /\ ~cfg.dry_run /\ Len(hist.enq_data) >= cfg.limit
        /\ Uniform(hist.enq_data))
    => /\ HoldsExactly(files["data"], hist.enq_data)
       /\ hist.flushes >= CeilDiv(Len(hist.enq_data), cfg.limit)

C3_Witness ==
    /\ pc = "done" /\ ~cfg.dry_run /\ cfg.limit = 2
    /\ Len(hist.enq_data) = 3 /\ Uniform(hist.enq_data)
    /\ hist.flushes = 2
    /\ Len(files["data"].rows) = 4

(* C4: in a dry-run scope the queued counters are updated but neither the
   data file nor the error file is ever created or modified, scope exit
   included. *)
C4_DryRunNoDiskIO ==
    cfg.dry_run => \A p \in Paths : files[p] \in {NoFile, OldFile}

(* C5: on every exit of a non-dry-run scope every record still held in the
   success queue or in the error queue has been flushed to that queue's file. *)
C5_ExitFlushesBothQueues ==
    (pc = "done" /\ ~cfg.dry_run /\ Uniform(data_queue) /\ Uniform(errors_queue))
    => /\ \A i \in DOMAIN data_queue :
             \E j \in DOMAIN files["data"].rows :
                 files["data"].rows[j].id = data_queue[i].id
       /\ \A i \in DOMAIN errors_queue :
             \E j \in DOMAIN files["err"].rows :
                 files["err"].rows[j].id = errors_queue[i].id

(* C6: a run killed in the middle of a flush leaves a checkpoint file; after
   the pipeline is re-run on the same output path with the same input, the
   data file holds every data record of the input exactly once under one
   header row. *)
C6_RerunResumesWithoutDuplicates ==
    (pc = "done" /\ ~cfg.dry_run /\ hist.kills > 0
        /\ hist.killed_at \notin {"idle", "returned"}
        /\ hist.killed_ckpt # "absent"
        /\ ~hist.exc /\ Uniform(DataInput) /\ Len(DataInput) > 0)
    => HoldsExactly(files["data"], DataInput)

(* C7: when the collection operation raises for some item, no exception
   leaves the batch or the pipeline scope, and every other item whose
   collection succeeds is enqueued as a data record and returned with the
   success code.  Violated when another item of the same batch fails in its
   progress callback: the two error records differ in their keys and the
   flush of the error queue at scope exit fails. *)
C7_ErrorIsolation ==
    (\E x \in DOMAIN tasks : tasks[x].outcome = "fail")
    => /\ pc # "raised"
       /\ \A y \in DOMAIN tasks : tasks[y].st # "raised"
       /\ \A y \in DOMAIN tasks :
             (Ok(y) /\ (tasks[y].st = "done" \/ pc = "returned"))
             => /\ tasks[y].st = "done"
                /\ tasks[y].code = SuccessCode
                /\ InSeq(y, Ids(hist.enq_data))
       /\ pc = "returned" =>
             \A y \in DOMAIN tasks : Ok(y) => InSeq(y, results.videos)

(* C8: in the aggregate every identifier has exactly one outcome: those
   returned with a non-negative code are under videos, those with a negative
   code under errors, none is in both or in neither, and the two buckets
   together have as many entries as there are identifiers. *)
C8_AggregatePartition ==
    pc = "returned"
    => /\ Len(results.videos) + Len(results.errors) = Len(tasks)
       /\ \A i \in DOMAIN tasks :
             /\ tasks[i].code >= 0 <=> InSeq(i, results.videos)
             /\ tasks[i].code < 0 <=> InSeq(i, results.errors)
             /\ InSeq(i, results.videos) <=> InSeq(i, Ids(hist.enq_data))
             /\ InSeq(i, results.errors) <=> InSeq(i, Ids(hist.enq_err))

C8_Witness ==
    /\ pc = "returned"
    /\ Len(tasks) = 3
    /\ Len(results.videos) > 0
    /\ Len(results.errors) > 0
    /\ Len(results.videos) = 2
    /\ Len(results.errors) = 1

(* C9: at no instant are more than max_concurrent callables in flight
   (started and not yet resolved). *)
C9_ConcurrencyCap ==
    Cardinality(InFlight) <= scraper.concurrency

C9_Witness ==
    /\ Len(tasks) > scraper.concurrency
    /\ Cardinality(InFlight) = scraper.concurrency
    /\ \E i \in DOMAIN tasks : tasks[i].st = "waiting"
    /\ \E i \in DOMAIN tasks : tasks[i].st = "done"

(* C10: no more than max_per_second callables begin within any one-second
   window, so the time between the first and the last of C starts is at
   least (C-1)/max_per_second seconds. *)
C10_StartRateCap ==
    /\ \A t \in 0..MaxClock :
          Cardinality(StartsWithin(t)) <= scraper.max_per_second
    /\ Len(limiter.starts) > 0 =>
          scraper.max_per_second *
              (limiter.starts[Len(limiter.starts)] - limiter.starts[1])
          >= (Len(limiter.starts) - 1) * TicksPerSecond

C10_Witness ==
    /\ Len(limiter.starts) = 3
    /\ scraper.max_per_second = 2
    /\ limiter.starts[3] - limiter.starts[1] = TicksPerSecond
    /\ \A i \in DOMAIN tasks : tasks[i].st = "done"

(* C11: a call of enqueue with an item that is not a mapping raises to the
   caller and leaves both queues, the stats counters, the output files and
   the checkpoint files unchanged. *)
C11_EnqueueRejectsNonMapping ==
    [][(pc = "open" /\ idx' = idx + 1 /\ ~input[idx + 1].is_dict)
       => /\ UNCHANGED <<data_queue, errors_queue, stats, files, ckpt>>
          /\ hist'.exc
          /\ w' = w /\ w.pc = "idle"]_vars

C11_Witness ==
    /\ hist.rejected
    /\ idx = 3
    /\ Len(data_queue) + Len(errors_queue) > 0
    /\ stats.data_queue.queued + stats.errors_queue.queued = 2

(* C12: the value enqueue returns is the record it appended to the queue,
   that is the item merged with the extra fields. *)
C12_EnqueueReturnsMergedRecord ==
    hist.ret.id = hist.last.id => hist.ret = hist.last

\* the header row a file starts with, and the rows written under it
HasHeader(f) == Len(f.rows) > 0 /\ f.rows[1].hdr
HeaderOf(f) == f.rows[1].cols
RowsUnder(f) == {j \in DOMAIN f.rows : j > 1 /\ ~f.rows[j].hdr}

(* C13: in a non-dry-run scope a record that lacks a column of the header
   already written to the data file makes the flush that would write it
   fail, so no data row of the file lacks a column of the file's header. *)
C13_MissingColumnFailsAtFlush ==
    (pc # "new" /\ ~cfg.dry_run /\ HasHeader(files["data"]))
    => /\ \A j \in RowsUnder(files["data"]) :
             HeaderOf(files["data"]) \subseteq files["data"].rows[j].cols
       /\ (w.pc = "returned" /\ w.path = "data" /\ ~wres.none)
             => \A i \in DOMAIN w.rows :
                    HeaderOf(files["data"]) \subseteq w.rows[i].cols

(* C14: in a non-dry-run scope, once the header of the data file is written
   no later batch widens the column list: every data row of the file has
   only columns of the file's header, and the file has one header row. *)
C14_FrozenHeader ==
    (pc # "new" /\ ~cfg.dry_run /\ HasHeader(files["data"]))
    => /\ \A j \in RowsUnder(files["data"]) :
             files["data"].rows[j].cols \subseteq HeaderOf(files["data"])
       /\ HeaderCount(files["data"]) = 1

(* C15: when a column list is given to the pipeline's constructor, the
   header the scope writes to the data file is that list and every flush writes its rows with
   that list. *)
C15_ExplicitColumnList ==
    (pc # "new" /\ ~cfg.dry_run /\ cfg.fields # NoFields
        /\ HasHeader(files["data"]))
    => /\ HeaderOf(files["data"]) = cfg.fields
       /\ \A j \in RowsUnder(files["data"]) :
             files["data"].rows[j].cols = cfg.fields

\* the ids in rows appear in the same relative order as in enq
InOrderOf(rows, enq) ==
    \A j, k \in DOMAIN rows :
        j < k => \E m, n \in DOMAIN enq :
                    m < n /\ enq[m] = rows[j] /\ enq[n] = rows[k]

(* C16: in the data file and in the error file the rows written by the scope
   appear in the order in which their records were enqueued, which is the
   order in which the items completed, over all threshold flushes and the
   exit flush. *)
C16_RowOrderIsEnqueueOrder ==
    pc # "new"
    => /\ InOrderOf(NewIds(files["data"]), Ids(hist.enq_data))
       /\ InOrderOf(NewIds(files["err"]), Ids(hist.enq_err))

C16_Witness ==
    /\ pc = "returned"
    /\ cfg.limit = 2
    /\ hist.flushes = 2
    /\ NewIds(files["data"]) = <<2, 1, 3>>

\* f holds a data row written by an earlier run
HoldsOldRow(f) == \E j \in DOMAIN f.rows : ~f.rows[j].hdr /\ f.rows[j].id = 0

(* C17: entering a non-dry-run scope deletes the data file and the error
   file of an earlier run: right after entry neither exists, and afterwards
   neither holds a row of the earlier run. *)
C17_EntryDeletesStaleFiles ==
    (pc # "new" /\ ~cfg.dry_run)
    => \A p \in Paths :
          /\ ~HoldsOldRow(files[p])
          /\ (pc = "open" /\ idx = 0) => ~files[p].exists

(* C18: when a flush through the writer fails, in enqueue or at scope
   exit, an exception reaches the caller of enqueue or of the scope, and the
   checkpoint file of that output path is left in place. *)
C18_WriteFailurePropagates ==
    [][(w.pc = "returned" /\ wres.none /\ w'.pc = "idle")
       => /\ ckpt'[w.path].st = "ok"
          /\ pc = "enq_flush" => (hist'.exc /\ pc' = "exiting")
          /\ pc \in {"exit_data", "exit_err"} => (hist'.raised /\ pc' = "done")]_vars

C18_Witness ==
    /\ pc = "done"
    /\ cfg.limit = 2
    /\ Len(hist.enq_data) = 2
    /\ hist.exc /\ hist.raised
    /\ ckpt["data"] = CkAt(1)

(* C19: a writer constructed over a malformed checkpoint file is
   constructed with resume position zero and then behaves as without a
   checkpoint: it starts at position zero and writes every row handed to
   it. *)
C19_MalformedCheckpointNotFatal ==
    /\ (w.pc = "init" /\ ckpt[w.path].st = "bad")
          => w.last_position = 0
    /\ (pc = "returned" /\ hist.killed_ckpt = "bad" /\ ~wres.none)
          => /\ wres.start_position = 0
             /\ wres.items_written = Len(batch)

C19_Witness ==
    /\ pc = "returned"
    /\ hist.killed_ckpt = "bad"
    /\ ~wres.none
    /\ Len(batch) = 3
    /\ Len(DataRowsOf(files["data"])) > Len(batch)

(* C20: every record the orchestrator enqueues on the error queue carries
   the identifier of the item it failed for, whether the collection or the
   progress callback failed. *)
C20_ErrorRecordsCarryIdentifier ==
    \A i \in DOMAIN hist.enq_err : "video_id" \in hist.enq_err[i].cols

\* the number of records of rows that f holds as a data row
RowsWritten(f, rows) ==
    Cardinality({i \in DOMAIN rows :
                    \E j \in DOMAIN f.rows :
                        ~f.rows[j].hdr /\ f.rows[j].id = rows[i].id})

\* how often f holds the record r as a data row
Copies(f, r) ==
    Cardinality({j \in DOMAIN f.rows : ~f.rows[j].hdr /\ f.rows[j].id = r.id})

(* C22: at every instant of write_rows the number of rows of the batch in
   the output file is at least the position a reader finds in the checkpoint
   file and at most that position plus one, and every row of the batch below
   that position is in the file exactly once. *)
C22_PerRowCheckpointInvariant ==
    (pc = "writing" /\ w.pc \in {"row", "flushed", "saving"})
    => LET pos == LoadCheckpoint(ckpt["data"])
           cnt == Len(NewIds(files["data"]))
       IN  /\ pos <= cnt
           /\ cnt <= pos + 1
           /\ \A i \in 1..pos : Copies(files["data"], batch[i]) = 1

(* C23: after a writer scope exits without an exception there is no
   checkpoint file for its path; after it exits with an exception there is
   one, and its position is the number of rows of the batch written so far. *)
C23_WriterScopeExit ==
    w.pc = "returned"
    => IF wres.none
       THEN /\ ckpt[w.path].st = "ok"
            /\ ckpt[w.path].pos = RowsWritten(files[w.path], w.rows)
       ELSE ckpt[w.path] = CkAbsent

C23_Witness ==
    /\ w.pc = "returned"
    /\ wres.none
    /\ ckpt[w.path] = CkAt(2)
    /\ hist.kills = 1

\* the first record of rows that lacks a field, or Len(rows) + 1
FirstLacking(rows, fieldnames) ==
    LET bad == {i \in DOMAIN rows : ~(fieldnames \subseteq rows[i].cols)}
    IN  IF bad = {} THEN Len(rows) + 1
        ELSE CHOOSE i \in bad : \A k \in bad : i <= k

(* C24: when write_rows reaches a record that lacks a column it raises at
   that record: the rows before it stay in the file, the checkpoint holds
   that record's index, and neither it nor any later record is written. *)
C24_MissingColumnStopsAtRow ==
    (w.pc = "returned" /\ wres.none)
    => LET j == FirstLacking(w.rows, w.fieldnames) IN
       /\ j <= Len(w.rows)
       /\ ckpt[w.path] = CkAt(j - 1)
       /\ \A i \in 1..(j - 1) : Copies(files[w.path], w.rows[i]) >= 1
       /\ \A i \in j..Len(w.rows) : Copies(files[w.path], w.rows[i]) = 0

C24_Witness ==
    /\ w.pc = "returned"
    /\ wres.none
    /\ Len(w.rows) = 3
    /\ FirstLacking(w.rows, w.fieldnames) = 2
    /\ Copies(files[w.path], w.rows[1]) = 1

(* C25: a writer scope truncates the file and writes the header first only
   when the loaded position is zero and the file has no content, and appends
   without a header otherwise; so over any sequence of writer scopes on one
   path that starts from a missing file and no checkpoint, the header row is
   written exactly once and before every data row. *)
C25_HeaderOnceAndFirst ==
    /\ w.pc = "header"
          => w.start_position = 0 /\ files[w.path].rows = <<>>
    /\ (w.pc = "row" /\ files[w.path].rows = <<>>)
          => w.start_position > 0
    /\ (~HoldsOldRow(files["data"]) /\ Len(files["data"].rows) > 0)
          => /\ files["data"].rows[1].hdr
             /\ HeaderCount(files["data"]) = 1

C25_Witness ==
    /\ pc = "returned"
    /\ hist.kills = 1
    /\ ~HoldsOldRow(files["data"])
    /\ Len(files["data"].rows) = 4

(* C26: in a non-dry-run scope, after every enqueue that returns normally
   neither the success queue nor the error queue holds as many records as
   the threshold: a queue that reaches it is flushed and cleared. *)
C26_ThresholdFlushBothQueues ==
    (~cfg.dry_run /\ pc = "open")
    => /\ Len(data_queue) < cfg.limit
       /\ Len(errors_queue) < cfg.limit

\* the queue selected by is_error, before and after a step
QueueOf(is_error) == IF is_error THEN errors_queue ELSE data_queue
QueueAfter(is_error) == IF is_error THEN errors_queue' ELSE data_queue'

(* C27: a successful enqueue(item, is_error=e) appends one record to the
   queue selected by e and adds 1 to that queue's queued counter, in dry-run
   mode too; from the call to its return the other queue, the other queue's
   counters and the other queue's output file do not change. *)
C27_EnqueueRoutingAndFrame ==
    [][/\ (pc = "open" /\ idx' = idx + 1 /\ input[idx + 1].is_dict)
          => LET e == input[idx + 1].is_error
                 sel == IF e THEN "errors_queue" ELSE "data_queue"
                 oth == IF e THEN "data_queue" ELSE "errors_queue"
             IN
             /\ QueueAfter(e) = Append(QueueOf(e),
                                     Merge(input[idx + 1].rec, input[idx + 1].kwargs))
             /\ stats'[sel].queued = stats[sel].queued + 1
             /\ QueueAfter(~e) = QueueOf(~e)
             /\ stats'[oth] = stats[oth]
             /\ files' = files
       /\ pc = "enq_flush"
          => LET e == (w.path = "err")
                 sel == IF e THEN "errors_queue" ELSE "data_queue"
                 oth == IF e THEN "data_queue" ELSE "errors_queue"
                 other_file == IF e THEN "data" ELSE "err"
             IN
             /\ QueueAfter(~e) = QueueOf(~e)
             /\ stats'[oth] = stats[oth]
             /\ files'[other_file] = files[other_file]
             /\ stats'[sel].queued = stats[sel].queued]_vars

C27_Witness ==
    /\ pc = "open"
    /\ cfg.limit = 2
    /\ stats.data_queue = [queued |-> 2, saved |-> 2]
    /\ stats.errors_queue = [queued |-> 1, saved |-> 0]
    /\ Len(errors_queue) = 1
    /\ ~files["err"].exists

(* C28: when the progress callback raises for an item, that item gets one
   record on the error queue and the error code, no exception leaves the
   batch or the pipeline scope, and the aggregate is returned with every
   item whose callback and collection succeed under videos. *)
C28_CallbackFailureRouted ==
    (\E x \in DOMAIN tasks : tasks[x].outcome = "cb_fail")
    => /\ pc # "raised"
       /\ \A x \in DOMAIN tasks :
             (tasks[x].outcome = "cb_fail" /\ tasks[x].st = "done")
             => /\ tasks[x].code = ErrorCode
                /\ Cardinality({k \in DOMAIN hist.enq_err :
                                   hist.enq_err[k].id = x}) = 1
       /\ pc = "returned" =>
             \A y \in DOMAIN tasks : Ok(y) => InSeq(y, results.videos)


(* C21: GET /results/{job_id} returns a results payload only for a job whose
   status is "completed", an error for a pending, running or failed job, and
   the results field of a job is non-null only once its status is
   "completed". *)
C21_ResultsOnlyWhenCompleted ==
    /\ jobs.response.kind = "results" => jobs.response.status = "completed"
    /\ jobs.response.status \in {"pending", "running", "failed"}
          => jobs.response.kind = "not completed"
             /\ jobs.response.results = NoAggregate
    /\ \A job_id \in JobIds :
          jobs.cached_jobs[job_id].results # NoAggregate
          => jobs.cached_jobs[job_id].status = "completed"


\* no callable of a later chunk has started while one of an earlier chunk
\* has not completed
ChunksSequential ==
    \A a, b \in DOMAIN fetch.items :
        (fetch.items[a].chunk < fetch.items[b].chunk
         /\ fetch.items[b].st # "waiting")
        => fetch.items[a].st = "done"

\* each chunk starts where the one before it ended and has at most
\* IO_BATCH_SIZE identifiers
ChunksConsecutive ==
    fetch.pc = "running"
    => /\ fetch.lo = fetch.upto
       /\ fetch.hi - fetch.lo <= fetch.size

(* C29, as stated: the fetch orchestrator partitions the n identifiers into
   consecutive chunks of at most B identifiers, every identifier in exactly
   one chunk, none dropped and none repeated, and no callable of chunk k+1
   starts before every callable of chunk k has completed. *)
C29_ChunkPartition ==
    /\ ChunksConsecutive
    /\ fetch.pc = "returned" => fetch.hi = fetch.n
    /\ ChunksSequential

(* C29, amended: the chunks are consecutive, of at most B identifiers and
   processed strictly sequentially, and in a run that returns they cover
   every identifier exactly once up to position (10000 + 1) * B; identifiers
   past that position are never requested. *)
C29_ChunkPartitionUpToCap ==
    /\ ChunksConsecutive
    /\ fetch.pc = "returned"
          => fetch.hi = IF fetch.n <= (BatchCap + 1) * fetch.size
                        THEN fetch.n ELSE (BatchCap + 1) * fetch.size
    /\ ChunksSequential

C29_Witness ==
    /\ fetch.pc = "running" /\ fetch.i = 1 /\ fetch.lo = 2 /\ fetch.hi = 4
    /\ Len(fetch.items) = 2
    /\ \A k \in DOMAIN fetch.items : fetch.items[k].st = "running"

(* C30: the progress callback of an orchestrator is invoked with the item's
   positional index in the full identifier list and its identifier, so the
   indices of a multi-chunk run are distinct per item and do not restart at a
   chunk boundary. *)
C30_ProgressIndexIsPosition ==
    fetch.last_call # NoCall
    => fetch.last_call.index = fetch.last_call.id - 1


\* the output path run_tool gives the pipeline of a job: data/{job_id}.csv
OutputPath(r) == jobs.runs[r].job_id

(* C31: the job layer never runs two jobs concurrently against the same
   output path: every job started through POST /{tool} has a job id, hence an
   output path and a job-status entry, distinct from those of every other
   job that has not finished. *)
C31_UnfinishedJobsHaveDistinctIds ==
    \A r1, r2 \in DOMAIN jobs.runs :
        (r1 # r2 /\ jobs.runs[r1].st # "done" /\ jobs.runs[r2].st # "done")
        => OutputPath(r1) # OutputPath(r2)


\* rows[p:] of a Python list, p >= 0
From(rows, p) == SubSeq(rows, p + 1, Len(rows))

\* the position write_rows is to start at: start_from when given, otherwise
\* the position of the checkpoint file found at construction
ResumePoint ==
    IF w.start_from # NoStartFrom THEN w.start_from
    ELSE IF hist.resume.st = "ok" THEN hist.resume.pos ELSE 0

(* C32: on success write_rows(rows, start_from=s) appends exactly rows[p..]
   in order, p being s when s is given and the checkpoint resume position
   otherwise, and returns start_position = p and items_written =
   len(rows) - p, 0 when p >= len(rows). *)
C32_WriteRowsReturnValue ==
    (w.pc = "returned" /\ ~wres.none)
    => /\ NewIds(files[w.path]) = Ids(From(w.rows, ResumePoint))
       /\ wres.start_position = ResumePoint
       /\ wres.items_written = IF ResumePoint >= Len(w.rows) THEN 0
                                ELSE Len(w.rows) - ResumePoint

C32_Witness ==
    /\ w.pc = "returned" /\ ~wres.none
    /\ w.start_from = 1 /\ hist.resume = CkAt(2) /\ Len(w.rows) = 3
    /\ wres.items_written = 2


\* the writer of the first save_to_csv this scope makes on its path has
\* entered and is in the loop of write_rows
InFirstFlush ==
    /\ pc \in {"enq_flush", "exit_data", "exit_err"}
    /\ w.pc = "row"
    /\ w.path \notin hist.flushed

(* C33: in every non-dry-run DataPipeline scope, whatever files a previous
   run left behind, checkpoint files with a non-zero position included, the
   first flush to each output file writes the header row and writes the batch
   from row index 0, so no record of the new run is skipped. *)
C33_NoStaleCheckpointCarryOver ==
    (~cfg.dry_run /\ InFirstFlush)
    => /\ w.start_position = 0
       /\ Len(files[w.path].rows) = 1 + w.last_position
       /\ files[w.path].rows[1] = HeaderRow(w.fieldnames)


\* the in-memory queue that feeds an output path
QueueAt(path) == IF path = "err" THEN errors_queue ELSE data_queue

\* the record is a data row of the file
IsRowOf(f, rec) ==
    \E k \in DOMAIN f.rows : ~f.rows[k].hdr /\ f.rows[k].id = rec.id

(* C34: in non-dry-run mode, every record for which enqueue returned
   normally is, at every later point of the scope, still in its in-memory
   queue or present as a row of its output file: clearing a queue never
   discards a record that was not written. *)
C34_NoRecordLost ==
    ~cfg.dry_run
    => \A x \in hist.returned :
          \/ InSeq(x[2], QueueAt(x[1]))
          \/ IsRowOf(files[x[1]], x[2])


\* no pipeline operation is in progress
BetweenOperations == pc \in {"open", "exiting", "done"}

\* the data rows the scope has written to the output file of a queue
RowsWrittenByScope(is_error) == Len(NewIds(files[PathOf(is_error)]))

SavedIsRowsWritten ==
    BetweenOperations
    => \A is_error \in BOOLEAN :
          stats[CounterOf(is_error)].saved = RowsWrittenByScope(is_error)

SavedAtMostQueued ==
    BetweenOperations
    => \A is_error \in BOOLEAN :
          stats[CounterOf(is_error)].saved <= stats[CounterOf(is_error)].queued

SavedIsQueuedAfterCleanExit ==
    (pc = "done" /\ ~cfg.dry_run /\ ~hist.exc /\ ~hist.raised)
    => \A is_error \in BOOLEAN :
          stats[CounterOf(is_error)].saved = stats[CounterOf(is_error)].queued

(* C35: between pipeline operations, for each queue the saved counter equals
   the number of data rows the scope has written to that queue's output file
   and saved <= queued; after a clean non-dry-run scope exit saved equals
   queued for both queues. *)
C35_StatsConsistency ==
    /\ SavedIsRowsWritten
    /\ SavedAtMostQueued
    /\ SavedIsQueuedAfterCleanExit

====
